---- MODULE Spec2Model ----
(***************************************************************************)
(* The work queue, the two worker pools, the key rotator and the           *)
(* cancellation flags of src/index.tsx, as one state machine.              *)
(*                                                                         *)
(* The program is single-threaded JavaScript.  One step of the model is    *)
(* one task of the event loop together with the microtasks it leaves       *)
(* behind: a user event handler, the arrival of one remote response, one   *)
(* timer tick of interruptibleDelay or the end of one file read, run up    *)
(* to the next await on something that has not settled yet.  A worker      *)
(* whose remote call settles therefore finishes its item, takes the next   *)
(* one and, if it returns and was the last of its run, runs the code after *)
(* Promise.all, all in the same step.                                      *)
(*                                                                         *)
(* Which user events can happen is decided by the DOM: a disabled button   *)
(* gets no click, a disabled textarea no input.  The disabled attributes   *)
(* the code sets are state of the model (dom).                             *)
(***************************************************************************)
EXTENDS Integers, Sequences, FiniteSets, TLC

VARIABLES
    fileQueue,                 \* let fileQueue: any[]
    isGenerating,              \* let isGenerating
    isBatchGeneratingPrompts,  \* let isBatchGeneratingPrompts
    currentApiKeyIndex,        \* let currentApiKeyIndex (0-based)
    storedKeys,                \* localStorage[API_KEYS_STORAGE_KEY], parsed
    dom,                       \* the disabled/display attributes the code sets
    genWorkers,                \* runWorker instances that have not returned
    promptOps,                 \* generatePromptForImage calls awaiting generateContent
    reads,                     \* blobToBase64 reads that have not finished
    nextId,                    \* ids handed out so far (Date.now() + Math.random())
    userEvents,                \* user events handled so far
    concurrency,               \* const concurrency of the latest startGeneration
    returned,                  \* the calls of getNextApiKey (rotation specification)
    lastKey                    \* what getNextApiKey returned in the last step

vars == <<fileQueue, isGenerating, isBatchGeneratingPrompts, currentApiKeyIndex,
          storedKeys, dom, genWorkers, promptOps, reads, nextId, userEvents,
          concurrency, returned, lastKey>>

---------------------------------------------------------------------------
(* Bounds of the model *)

\* user events (clicks, drops, edits) in one behaviour
MaxUserEvents == 5
\* items ever added to the queue
MaxItems == 2
\* generation runs / prompt passes whose workers have not all returned
MaxRuns == 2
\* interactive generatePromptForImage calls in flight
MaxPromptOps == 1
\* file reads in flight
MaxReads == 1
\* getNextApiKey calls recorded by the rotation specification
MaxCalls == 7

MAX_VIDEO_WORKERS == 5
MAX_PROMPT_WORKERS == 5

---------------------------------------------------------------------------
(* Values *)

Null == "null"
Undefined == "undefined"
NoCall == "no call"

\* the lists a user saves (one key per line, blank lines dropped)
KeyLists == { <<>>, <<"k1">>, <<"k1", "k2">> }

\* prompts are strings: sequences of characters
Space == " "
PromptTexts == { <<Space>>, <<"a">> }
\* response.text of generateContent, before trim()
ResponseTexts == { <<Space, "b", Space>>, <<Space>> }

\* item.error when no message is stored
NoError == <<>>

\* Error messages are strings: sequences of characters.
\* the message of an error the remote call rejects with
PermissionDenied ==
    <<"P", "E", "R", "M", "I", "S", "S", "I", "O", "N", "_", "D", "E", "N",
      "I", "E", "D">>
SubmitErrors == { PermissionDenied }
\* messages of the errors generateVideo and interruptibleDelay throw
NoVideosError ==
    <<"N", "o", " ", "v", "i", "d", "e", "o", "s", " ", "w", "e", "r", "e",
      " ", "g", "e", "n", "e", "r", "a", "t", "e", "d", ".">>
FetchError ==
    <<"F", "a", "i", "l", "e", "d", " ", "t", "o", " ", "f", "e", "t", "c",
      "h", " ", "v", "i", "d", "e", "o", ":", " ">>
CancelledError ==
    <<"G", "e", "n", "e", "r", "a", "t", "i", "o", "n", " ", "c", "a", "n",
      "c", "e", "l", "l", "e", "d", " ", "b", "y", " ", "u", "s", "e", "r",
      ".">>
\* the message generatePromptForImage stores
PromptFailed ==
    <<"P", "r", "o", "m", "p", "t", " ", "g", "e", "n", "e", "r", "a", "t",
      "i", "o", "n", " ", "f", "a", "i", "l", "e", "d", ".">>

\* String.prototype.toLowerCase, on the letters A-Z
UpperCase ==
    <<"A", "B", "C", "D", "E", "F", "G", "H", "I", "J", "K", "L", "M",
      "N", "O", "P", "Q", "R", "S", "T", "U", "V", "W", "X", "Y", "Z">>
LowerCase ==
    <<"a", "b", "c", "d", "e", "f", "g", "h", "i", "j", "k", "l", "m",
      "n", "o", "p", "q", "r", "s", "t", "u", "v", "w", "x", "y", "z">>
ToLowerCaseChar(c) ==
    IF \E k \in 1..26 : UpperCase[k] = c
    THEN LowerCase[CHOOSE k \in 1..26 : UpperCase[k] = c] ELSE c
RECURSIVE ToLowerCase(_)
ToLowerCase(s) ==
    IF s = <<>> THEN <<>> ELSE <<ToLowerCaseChar(Head(s))>> \o ToLowerCase(Tail(s))

\* String.prototype.includes
Includes(s, sub) ==
    \E i \in 0..(Len(s) - Len(sub)) : SubSeq(s, i + 1, i + Len(sub)) = sub

\* the substrings runWorker looks for in the lower-cased message
CredentialSignals ==
    { <<"a", "p", "i", " ", "k", "e", "y", " ", "n", "o", "t", " ", "v", "a", "l", "i", "d">>,
      <<"4", "2", "9">>,
      <<"p", "e", "r", "m", "i", "s", "s", "i", "o", "n">>,
      <<"r", "e", "f", "e", "r", "r", "e", "r">> }

\* the test of the message without toLowerCase
IsCredentialErrorCaseSensitive(msg) ==
    \E sig \in CredentialSignals : Includes(msg, sig)

\* errorMessage.includes('api key not valid') || ... || .includes('referrer')
IsCredentialError(msg) ==
    LET errorMessage == ToLowerCase(msg)
    IN  \E sig \in CredentialSignals : Includes(errorMessage, sig)

\* the messages of the errors runWorker can catch, and those of them the
\* test picks out (the test is evaluated once for each message)
ErrorMessages == SubmitErrors \cup {NoVideosError, FetchError, CancelledError}
CredentialErrors == { msg \in ErrorMessages : IsCredentialError(msg) }

\* statusEl.innerText: the three texts the code after Promise.all of
\* startGeneration writes, and OtherText for every other text
OtherText == <<"other">>
GenerationCancelledText == <<"Generation cancelled.">>
CompleteText == <<"Batch processing complete.">>
CompleteWithErrorsText(failedItems) ==
    <<"Batch processing complete with ", failedItems, " error(s).">>

Statuses == { "queued", "processing", "generating-prompt", "complete", "error", "skipped" }

Min(a, b) == IF a <= b THEN a ELSE b

Range(s) == { s[i] : i \in 1..Len(s) }

\* String.prototype.trim
RECURSIVE TrimLeft(_)
TrimLeft(s) == IF s # <<>> /\ Head(s) = Space THEN TrimLeft(Tail(s)) ELSE s
RECURSIVE TrimRight(_)
TrimRight(s) ==
    IF s # <<>> /\ s[Len(s)] = Space THEN TrimRight(SubSeq(s, 1, Len(s) - 1)) ELSE s
Trim(s) == TrimRight(TrimLeft(s))

\* (item.prompt && item.prompt.trim() !== '') || item.file
Processable(item) == (item.prompt # <<>> /\ Trim(item.prompt) # <<>>) \/ item.file

HasProcessableItems(q) == \E i \in 1..Len(q) : Processable(q[i])

Ids(q) == { q[i].id : i \in 1..Len(q) }

\* fileQueue.find(i => i.id === id)
ItemOf(q, id) == q[CHOOSE i \in 1..Len(q) : q[i].id = id]

\* a write through the object reference `item`: it changes the queue only
\* while the object is still in it
WriteItem(q, id, fields) ==
    [i \in 1..Len(q) |->
        IF q[i].id = id
        THEN [f \in DOMAIN q[i] |-> IF f \in DOMAIN fields THEN fields[f] ELSE q[i][f]]
        ELSE q[i]]

\* getApiKeys(): the stored list, [] when nothing is stored
getApiKeys == storedKeys

\* getNextApiKey with the cursor advanced but not wrapped
getNextApiKeyNoWrap ==
    LET keys == getApiKeys
    IN  IF Len(keys) = 0 THEN [key |-> Null, index |-> currentApiKeyIndex]
        ELSE [key |-> IF currentApiKeyIndex < Len(keys)
                      THEN keys[currentApiKeyIndex + 1] ELSE Undefined,
              index |-> currentApiKeyIndex + 1]

\* getNextApiKey(): the key it returns and the cursor it leaves.  keys[i] of
\* an index past the end of the array is undefined.
getNextApiKey ==
    LET keys == getApiKeys
    IN  IF Len(keys) = 0 THEN [key |-> Null, index |-> currentApiKeyIndex]
        ELSE [key |-> IF currentApiKeyIndex < Len(keys)
                      THEN keys[currentApiKeyIndex + 1] ELSE Undefined,
              index |-> (currentApiKeyIndex + 1) % Len(keys)]

\* !key
Falsy(key) == key \in {Null, Undefined, ""}

---------------------------------------------------------------------------
(* The DOM *)

\* updateGenerateButtonState
UpdateGenerateButtonState(d, q, gen, batch) ==
    IF gen \/ batch THEN d
    ELSE [d EXCEPT !.generateButtonDisabled = ~HasProcessableItems(q)]

\* updatePromptButtonsState
UpdatePromptButtonsState(d, q, gen, batch) ==
    IF batch THEN d
    ELSE IF gen THEN [d EXCEPT !.generateAllPromptsButtonDisabled = TRUE]
    ELSE [d EXCEPT !.generateAllPromptsButtonDisabled = ~HasProcessableItems(q)]

\* updateActionButtonsState
UpdateActionButtonsState(d, q) ==
    [d EXCEPT !.clearCompletedDisplay =
        \E i \in 1..Len(q) : q[i].status = "complete" /\ q[i].videoBlob]

UpdateButtons(d, q, gen, batch) ==
    UpdateActionButtonsState(
        UpdatePromptButtonsState(UpdateGenerateButtonState(d, q, gen, batch), q, gen, batch),
        q)

\* renderQueue: the per-item elements are created anew, enabled, but for the
\* generate-prompt button of each item
RenderQueue(d, q, gen, batch) ==
    UpdateButtons(
        [d EXCEPT !.itemControlsDisabled = FALSE,
                  !.genPromptBtnDisabled =
                      [id \in Ids(q) |->
                          ~Processable(ItemOf(q, id))
                          \/ ItemOf(q, id).status = "generating-prompt"]],
        q, gen, batch)

\* the querySelectorAll(...).forEach of setUIState and setBatchPromptUIState,
\* over the per-item elements that exist now
SetItemControls(d, v) ==
    [d EXCEPT !.itemControlsDisabled = v,
              !.genPromptBtnDisabled = [id \in DOMAIN d.genPromptBtnDisabled |-> v]]

\* setUIState(generating)
SetUIState(d, generating, q, gen, batch) ==
    LET d1 == [d EXCEPT !.panelDisabled = generating,
                        !.generateAllPromptsButtonDisabled = generating]
        d2 == IF generating THEN [d1 EXCEPT !.generateButtonDisabled = FALSE]
              ELSE UpdateButtons(d1, q, gen, batch)
    IN  SetItemControls(d2, generating)

\* setBatchPromptUIState(processing)
SetBatchPromptUIState(d, processing, q, gen, batch) ==
    LET d1 == [d EXCEPT !.panelDisabled = processing,
                        !.generateButtonDisabled = processing]
        d2 == IF processing THEN [d1 EXCEPT !.generateAllPromptsButtonDisabled = FALSE]
              ELSE d1
        d3 == SetItemControls(d2, processing)
    IN  IF processing THEN d3 ELSE UpdateButtons(d3, q, gen, batch)

---------------------------------------------------------------------------
(* Initial state: initializeApp has run *)

Init ==
    /\ fileQueue = <<>>
    /\ isGenerating = FALSE
    /\ isBatchGeneratingPrompts = FALSE
    /\ currentApiKeyIndex = 0
    /\ storedKeys \in KeyLists
    /\ dom = [generateButtonDisabled |-> TRUE,
              generateAllPromptsButtonDisabled |-> TRUE,
              panelDisabled |-> FALSE,
              clearCompletedDisplay |-> FALSE,
              itemControlsDisabled |-> FALSE,
              genPromptBtnDisabled |-> <<>>,
              quotaErrorDisplay |-> FALSE,
              statusEl |-> OtherText]
    /\ genWorkers = {}
    /\ promptOps = {}
    /\ reads = <<>>
    /\ nextId = 0
    /\ userEvents = 0
    /\ concurrency = 0
    /\ returned = <<>>
    /\ lastKey = NoCall

---------------------------------------------------------------------------
(* The queue: user events on it *)

\* a user event is handled
UserEvent == userEvents < MaxUserEvents /\ userEvents' = userEvents + 1

NewItem(id) ==
    [id |-> id, file |-> TRUE, prompt |-> <<>>, status |-> "queued",
     error |-> NoError, videoBlob |-> FALSE, promptGenerationStarted |-> FALSE]

\* handleFiles, one image file dropped or chosen, up to its await of
\* blobToBase64
HandleFilesStart ==
    /\ UserEvent
    /\ ~dom.panelDisabled
    /\ nextId + Len(SelectSeq(reads, LAMBDA r : r = 0)) < MaxItems
    /\ Len(reads) < MaxReads
    /\ reads' = Append(reads, 0)
    /\ lastKey' = NoCall
    /\ UNCHANGED <<fileQueue, isGenerating, isBatchGeneratingPrompts, currentApiKeyIndex,
                   storedKeys, dom, genWorkers, promptOps, nextId, concurrency, returned>>

\* addImageToItem, from the drop on (or the file chosen for) the placeholder
\* of an item without image, up to its await of blobToBase64
AddImageToItemStart(id) ==
    /\ UserEvent
    /\ id \in Ids(fileQueue)
    /\ ~ItemOf(fileQueue, id).file
    /\ ~dom.itemControlsDisabled
    /\ Len(reads) < MaxReads
    /\ reads' = Append(reads, id)
    /\ lastKey' = NoCall
    /\ UNCHANGED <<fileQueue, isGenerating, isBatchGeneratingPrompts, currentApiKeyIndex,
                   storedKeys, dom, genWorkers, promptOps, nextId, concurrency, returned>>

RemoveAt(s, k) == SubSeq(s, 1, k - 1) \o SubSeq(s, k + 1, Len(s))

\* blobToBase64 resolves: the rest of handleFiles or of addImageToItem
ReadDone(k) ==
    /\ k \in 1..Len(reads)
    /\ LET q == IF reads[k] = 0 THEN Append(fileQueue, NewItem(nextId + 1))
                ELSE WriteItem(fileQueue, reads[k], [file |-> TRUE])
       IN  /\ fileQueue' = q
           /\ dom' = RenderQueue(dom, q, isGenerating, isBatchGeneratingPrompts)
    /\ nextId' = IF reads[k] = 0 THEN nextId + 1 ELSE nextId
    /\ reads' = RemoveAt(reads, k)
    /\ lastKey' = NoCall
    /\ UNCHANGED <<isGenerating, isBatchGeneratingPrompts, currentApiKeyIndex,
                   storedKeys, genWorkers, promptOps, userEvents, concurrency, returned>>

\* the input listener of an item's prompt textarea
PromptInput(id, text) ==
    /\ UserEvent
    /\ id \in Ids(fileQueue)
    /\ ~dom.itemControlsDisabled
    /\ LET q == WriteItem(fileQueue, id, [prompt |-> text])
       IN  /\ fileQueue' = q
           /\ dom' = RenderQueue(dom, q, isGenerating, isBatchGeneratingPrompts)
    /\ lastKey' = NoCall
    /\ UNCHANGED <<isGenerating, isBatchGeneratingPrompts, currentApiKeyIndex,
                   storedKeys, genWorkers, promptOps, reads, nextId, concurrency, returned>>

\* removeQueueItem
RemoveQueueItem(id) ==
    /\ UserEvent
    /\ id \in Ids(fileQueue)
    /\ ~dom.itemControlsDisabled
    /\ LET q == SelectSeq(fileQueue, LAMBDA it : it.id # id)
       IN  /\ fileQueue' = q
           /\ dom' = RenderQueue(dom, q, isGenerating, isBatchGeneratingPrompts)
    /\ lastKey' = NoCall
    /\ UNCHANGED <<isGenerating, isBatchGeneratingPrompts, currentApiKeyIndex,
                   storedKeys, genWorkers, promptOps, reads, nextId, concurrency, returned>>

\* removeImageFromItem, from the button drawn on an item that has an image
RemoveImageFromItem(id) ==
    /\ UserEvent
    /\ id \in Ids(fileQueue)
    /\ ItemOf(fileQueue, id).file
    /\ ~dom.itemControlsDisabled
    /\ LET q == WriteItem(fileQueue, id, [file |-> FALSE])
       IN  /\ fileQueue' = q
           /\ dom' = RenderQueue(dom, q, isGenerating, isBatchGeneratingPrompts)
    /\ lastKey' = NoCall
    /\ UNCHANGED <<isGenerating, isBatchGeneratingPrompts, currentApiKeyIndex,
                   storedKeys, genWorkers, promptOps, reads, nextId, concurrency, returned>>

\* handleClearCompleted
HandleClearCompleted ==
    /\ UserEvent
    /\ dom.clearCompletedDisplay
    /\ ~dom.panelDisabled
    /\ LET q == SelectSeq(fileQueue, LAMBDA it : it.status # "complete")
       IN  IF q = fileQueue THEN UNCHANGED <<fileQueue, dom>>
           ELSE /\ fileQueue' = q
                /\ dom' = RenderQueue(dom, q, isGenerating, isBatchGeneratingPrompts)
    /\ lastKey' = NoCall
    /\ UNCHANGED <<isGenerating, isBatchGeneratingPrompts, currentApiKeyIndex,
                   storedKeys, genWorkers, promptOps, reads, nextId, concurrency, returned>>

\* saveApiKey with the textarea holding the lines of `keys`, another list than
\* the stored one (saving the stored list again changes nothing)
SaveApiKey(keys) ==
    /\ UserEvent
    /\ ~dom.panelDisabled
    /\ keys # storedKeys
    /\ storedKeys' = keys
    /\ lastKey' = NoCall
    /\ UNCHANGED <<fileQueue, isGenerating, isBatchGeneratingPrompts, currentApiKeyIndex,
                   dom, genWorkers, promptOps, reads, nextId, concurrency, returned>>

---------------------------------------------------------------------------
(* The generation pool *)

NoWorker == [run |-> 0]

RunsOf(ws) == { w.run : w \in ws }

\* the lowest run number no live worker carries
FreeRun(ws) == CHOOSE r \in 1..MaxRuns : r \notin RunsOf(ws) /\ \A s \in 1..(r - 1) : s \in RunsOf(ws)

\* a find that takes queued items only
FindClaimableQueuedOnly(q) ==
    IF \E i \in 1..Len(q) : q[i].status = "queued"
    THEN CHOOSE i \in 1..Len(q) :
            /\ q[i].status = "queued"
            /\ \A j \in 1..(i - 1) : q[j].status # "queued"
    ELSE 0

\* fileQueue.find(i => i.status === 'queued' || i.status === 'error'), as an
\* index (0: none)
FindClaimable(q) ==
    IF \E i \in 1..Len(q) : q[i].status \in {"queued", "error"}
    THEN CHOOSE i \in 1..Len(q) :
            /\ q[i].status \in {"queued", "error"}
            /\ \A j \in 1..(i - 1) : q[j].status \notin {"queued", "error"}
    ELSE 0

\* One turn of runWorker's loop, from `while (isGenerating)` to the await of
\* ai.models.generateVideos inside generateVideo: the worker takes the first
\* claimable item and submits it, or returns (worker = NoWorker).
WorkerClaim(q, d, gen, batch, run, workerId, apiKey) ==
    LET i == FindClaimable(q)
    IN  IF gen /\ i # 0
        THEN LET q1 == [q EXCEPT ![i].status = "processing"]
             IN  [q |-> q1,
                  d |-> [RenderQueue(d, q1, gen, batch) EXCEPT !.statusEl = OtherText],
                  worker |-> [run |-> run, workerId |-> workerId, apiKey |-> apiKey,
                              item |-> q[i].id, pc |-> "submit"]]
        ELSE [q |-> q, d |-> d, worker |-> NoWorker]

\* the code of startGeneration after `await Promise.all(workers)`
JoinGeneration(q, d, gen, batch) ==
    LET q1 == IF ~gen
              THEN [i \in 1..Len(q) |->
                      IF q[i].status = "processing" /\ Processable(q[i])
                      THEN [q[i] EXCEPT !.status = "queued"] ELSE q[i]]
              ELSE q
        failedItems == Cardinality({ i \in 1..Len(q) : q[i].status = "error" })
        d1 == IF ~gen
              THEN RenderQueue([d EXCEPT !.statusEl = GenerationCancelledText],
                               q1, gen, batch)
              ELSE IF failedItems > 0
              THEN [d EXCEPT !.statusEl = CompleteWithErrorsText(failedItems)]
              ELSE [d EXCEPT !.statusEl = CompleteText]
    IN  [q |-> q1, d |-> SetUIState(d1, FALSE, q1, FALSE, batch)]

\* Worker w has left its item with the queue q and the DOM d: it loops, and
\* if it returns as the last worker of its run, the run joins.
WorkerContinues(w, q, d) ==
    LET c == WorkerClaim(q, d, isGenerating, isBatchGeneratingPrompts,
                         w.run, w.workerId, w.apiKey)
        rest == genWorkers \ {w}
    IN  IF c.worker # NoWorker
        THEN /\ genWorkers' = rest \cup {c.worker}
             /\ fileQueue' = c.q
             /\ dom' = c.d
             /\ UNCHANGED isGenerating
        ELSE IF w.run \in RunsOf(rest)
        THEN /\ genWorkers' = rest
             /\ fileQueue' = q
             /\ dom' = d
             /\ UNCHANGED isGenerating
        ELSE LET j == JoinGeneration(q, d, isGenerating, isBatchGeneratingPrompts)
             IN  /\ genWorkers' = rest
                 /\ fileQueue' = j.q
                 /\ dom' = j.d
                 /\ isGenerating' = FALSE

\* generateVideo resolved with the video
WorkerSucceeds(w) ==
    LET q1 == WriteItem(fileQueue, w.item, [videoBlob |-> TRUE, status |-> "complete"])
        d1 == IF isGenerating
              THEN RenderQueue(dom, q1, isGenerating, isBatchGeneratingPrompts) ELSE dom
    IN  WorkerContinues(w, q1, d1)

\* the catch block without its `if (!isGenerating) break`
WorkerCatchesUnchecked(w, msg) ==
    LET q1 == WriteItem(fileQueue, w.item, [status |-> "error", error |-> msg])
        d1 == IF msg \in CredentialErrors
              THEN [dom EXCEPT !.quotaErrorDisplay = TRUE, !.statusEl = OtherText]
              ELSE [dom EXCEPT !.statusEl = OtherText]
    IN  WorkerContinues(w, q1,
            IF isGenerating
            THEN RenderQueue(d1, q1, isGenerating, isBatchGeneratingPrompts) ELSE d1)

\* generateVideo threw e: the catch and finally blocks of runWorker
WorkerCatches(w, msg) ==
    IF ~isGenerating
    THEN \* break
         WorkerContinues(w, fileQueue, dom)
    ELSE LET q1 == WriteItem(fileQueue, w.item, [status |-> "error", error |-> msg])
             d1 == IF msg \in CredentialErrors
                   THEN [dom EXCEPT !.quotaErrorDisplay = TRUE, !.statusEl = OtherText]
                   ELSE [dom EXCEPT !.statusEl = OtherText]
         IN  WorkerContinues(w, q1,
                 RenderQueue(d1, q1, isGenerating, isBatchGeneratingPrompts))

\* interruptibleDelay(10000) is called: its first check() runs at once
WorkerDelays(w) ==
    IF ~isGenerating
    THEN WorkerCatches(w, CancelledError)
    ELSE /\ genWorkers' = (genWorkers \ {w}) \cup {[w EXCEPT !.pc = "delay"]}
         /\ UNCHANGED <<fileQueue, dom, isGenerating>>

\* what arrives for ai.models.generateVideos or ai.operations.getVideosOperation
OperationOutcomes == {"throws", "pending", "no videos", "done"}

\* generateVideo from the answer to the submission or to a poll on
OperationReturns(w, outcome) ==
    /\ w \in genWorkers
    /\ w.pc \in {"submit", "poll"}
    /\ CASE outcome = "throws" -> \E msg \in SubmitErrors : WorkerCatches(w, msg)
         [] outcome = "pending" -> WorkerDelays(w)
         [] outcome = "no videos" -> WorkerCatches(w, NoVideosError)
         [] outcome = "done" ->
              /\ genWorkers' = (genWorkers \ {w}) \cup {[w EXCEPT !.pc = "fetch"]}
              /\ UNCHANGED <<fileQueue, dom, isGenerating>>
    /\ lastKey' = NoCall
    /\ UNCHANGED <<isBatchGeneratingPrompts, currentApiKeyIndex, storedKeys,
                   promptOps, reads, nextId, userEvents, concurrency, returned>>

\* A timer tick of interruptibleDelay that ends the delay: check() rejects
\* when the flag is cleared and resolves when the time is up, and then
\* generateVideo polls.  (A tick that re-arms the timer changes nothing.)
DelayTick(w) ==
    /\ w \in genWorkers
    /\ w.pc = "delay"
    /\ IF ~isGenerating
       THEN WorkerCatches(w, CancelledError)
       ELSE /\ genWorkers' = (genWorkers \ {w}) \cup {[w EXCEPT !.pc = "poll"]}
            /\ UNCHANGED <<fileQueue, dom, isGenerating>>
    /\ lastKey' = NoCall
    /\ UNCHANGED <<isBatchGeneratingPrompts, currentApiKeyIndex, storedKeys,
                   promptOps, reads, nextId, userEvents, concurrency, returned>>

\* the answer to fetch(url) and its body
FetchReturns(w, ok) ==
    /\ w \in genWorkers
    /\ w.pc = "fetch"
    /\ IF ok THEN WorkerSucceeds(w) ELSE WorkerCatches(w, FetchError)
    /\ lastKey' = NoCall
    /\ UNCHANGED <<isBatchGeneratingPrompts, currentApiKeyIndex, storedKeys,
                   promptOps, reads, nextId, userEvents, concurrency, returned>>

\* the workers started with the keys taken one place further on in the list
RECURSIVE StartWorkersShifted(_, _, _, _, _, _, _)
StartWorkersShifted(q, d, batch, run, apiKeys, i, n) ==
    IF i >= n THEN [q |-> q, d |-> d, workers |-> {}]
    ELSE LET c == WorkerClaim(q, d, TRUE, batch, run, i, apiKeys[((i + 1) % Len(apiKeys)) + 1])
             r == StartWorkersShifted(c.q, c.d, batch, run, apiKeys, i + 1, n)
         IN  [q |-> r.q, d |-> r.d,
              workers |-> IF c.worker = NoWorker THEN r.workers
                          ELSE r.workers \cup {c.worker}]

\* the for loop that starts the workers: worker i runs to its first await
\* before worker i + 1 is started
RECURSIVE StartWorkers(_, _, _, _, _, _, _)
StartWorkers(q, d, batch, run, apiKeys, i, n) ==
    IF i >= n THEN [q |-> q, d |-> d, workers |-> {}]
    ELSE LET c == WorkerClaim(q, d, TRUE, batch, run, i, apiKeys[i + 1])
             r == StartWorkers(c.q, c.d, batch, run, apiKeys, i + 1, n)
         IN  [q |-> r.q, d |-> r.d,
              workers |-> IF c.worker = NoWorker THEN r.workers
                          ELSE r.workers \cup {c.worker}]

\* a reset that leaves completed items as they are
ResetStatusesKeepComplete(q) ==
    [i \in 1..Len(q) |->
        IF q[i].status = "complete" THEN q[i]
        ELSE IF Processable(q[i])
        THEN [q[i] EXCEPT !.videoBlob = FALSE, !.status = "queued", !.error = NoError]
        ELSE [q[i] EXCEPT !.videoBlob = FALSE, !.status = "skipped"]]

\* the statuses startGeneration gives the items before the workers start
ResetStatuses(q) ==
    [i \in 1..Len(q) |->
        IF Processable(q[i])
        THEN [q[i] EXCEPT !.videoBlob = FALSE, !.status = "queued", !.error = NoError]
        ELSE [q[i] EXCEPT !.videoBlob = FALSE, !.status = "skipped"]]

\* the number of workers without the bound by the eligible items
ConcurrencyNoItemBound(apiKeys, q) == Min(Len(apiKeys), MAX_VIDEO_WORKERS)

\* the number of workers startGeneration starts
Concurrency(apiKeys, q) ==
    Min(Min(Len(apiKeys), Len(SelectSeq(q, Processable))), MAX_VIDEO_WORKERS)

\* startGeneration without its check of the credential list
ChecksPassedNoKeyCheck(apiKeys, q) == HasProcessableItems(q)

\* the two checks startGeneration returns early on
ChecksPassed(apiKeys, q) == Len(apiKeys) # 0 /\ HasProcessableItems(q)

\* the notice left as it is
HideQuotaErrorSkipped(d) == d

\* quotaErrorEl.style.display = 'none'
HideQuotaError(d) == [d EXCEPT !.quotaErrorDisplay = FALSE]

\* startGeneration, to its await of Promise.all
StartGeneration ==
    LET apiKeys == getApiKeys
        batch == isBatchGeneratingPrompts
    IN  IF ~ChecksPassed(apiKeys, fileQueue)
        THEN /\ dom' = IF Len(apiKeys) = 0
                       THEN [dom EXCEPT !.quotaErrorDisplay = TRUE, !.statusEl = OtherText]
                       ELSE [dom EXCEPT !.statusEl = OtherText]
             /\ UNCHANGED <<fileQueue, isGenerating, genWorkers, concurrency>>
        ELSE LET run == FreeRun(genWorkers)
                 d1 == UpdateActionButtonsState(
                           HideQuotaError(SetUIState(dom, TRUE, fileQueue, TRUE, batch)),
                           [i \in 1..Len(fileQueue) |->
                               [fileQueue[i] EXCEPT !.videoBlob = FALSE]])
                 q1 == ResetStatuses(fileQueue)
                 d2 == RenderQueue(d1, q1, TRUE, batch)
                 s == StartWorkers(q1, d2, batch, run, apiKeys, 0,
                                   Concurrency(apiKeys, fileQueue))
             IN  /\ concurrency' = Concurrency(apiKeys, fileQueue)
                 /\ IF s.workers # {}
                    THEN /\ genWorkers' = genWorkers \cup s.workers
                         /\ fileQueue' = s.q
                         /\ dom' = s.d
                         /\ isGenerating' = TRUE
                    ELSE LET j == JoinGeneration(s.q, s.d, TRUE, batch)
                         IN  /\ genWorkers' = genWorkers
                             /\ fileQueue' = j.q
                             /\ dom' = j.d
                             /\ isGenerating' = FALSE

\* the click listener of generateButton
GenerateButtonClick ==
    /\ UserEvent
    /\ ~dom.generateButtonDisabled
    /\ IF isGenerating
       THEN /\ isGenerating' = FALSE
            /\ dom' = [dom EXCEPT !.generateButtonDisabled = TRUE,
                                   !.statusEl = OtherText]
            /\ UNCHANGED <<fileQueue, genWorkers, concurrency>>
       ELSE /\ Cardinality(RunsOf(genWorkers)) < MaxRuns
            /\ StartGeneration
    /\ lastKey' = NoCall
    /\ UNCHANGED <<isBatchGeneratingPrompts, currentApiKeyIndex, storedKeys,
                   promptOps, reads, nextId, returned>>

---------------------------------------------------------------------------
(* Prompt generation *)

\* promptOps holds one record per generatePromptForImage call in flight.
\* run = 0: started by an item's button (workerId numbers the calls in
\* flight); run > 0: awaited by worker workerId of that prompt pass.

\* generatePromptForImage without its two early returns on the item and on
\* the credential
GeneratePromptForImageUnchecked(q, d, gen, batch, itemId, apiKey) ==
    IF itemId \notin Ids(q) THEN [q |-> q, d |-> d, called |-> FALSE]
    ELSE LET item == ItemOf(q, itemId)
             q1 == WriteItem(q, itemId, [status |-> "generating-prompt"])
         IN  [q |-> q1, d |-> RenderQueue(d, q1, gen, batch), called |-> TRUE,
              originalStatus |-> item.status]

\* generatePromptForImage(itemId, apiKey), to its await of generateContent:
\* the queue and DOM it leaves and whether a call went out.
GeneratePromptForImage(q, d, gen, batch, itemId, apiKey) ==
    IF itemId \notin Ids(q) THEN [q |-> q, d |-> d, called |-> FALSE]
    ELSE LET item == ItemOf(q, itemId)
             hasImage == item.file
             hasPrompt == item.prompt # <<>> /\ Trim(item.prompt) # <<>>
         IN  IF ~hasImage /\ ~hasPrompt
             THEN [q |-> q, d |-> d, called |-> FALSE]
             ELSE IF Falsy(apiKey)
             THEN [q |-> q, d |-> [d EXCEPT !.statusEl = OtherText], called |-> FALSE]
             ELSE LET q1 == WriteItem(q, itemId, [status |-> "generating-prompt"])
                  IN  [q |-> q1, d |-> RenderQueue(d, q1, gen, batch), called |-> TRUE,
                       originalStatus |-> item.status]

PromptOp(run, workerId, apiKey, itemId, originalStatus) ==
    [run |-> run, workerId |-> workerId, apiKey |-> apiKey, item |-> itemId,
     originalStatus |-> originalStatus]

FreeSlot(ops) ==
    CHOOSE n \in 1..MaxPromptOps :
        /\ \A o \in ops : ~(o.run = 0 /\ o.workerId = n)
        /\ \A m \in 1..(n - 1) : \E o \in ops : o.run = 0 /\ o.workerId = m

\* the click listener of an item's generate-prompt button
GenPromptBtnClick(id) ==
    /\ UserEvent
    /\ id \in DOMAIN dom.genPromptBtnDisabled
    /\ ~dom.genPromptBtnDisabled[id]
    /\ Cardinality({o \in promptOps : o.run = 0}) < MaxPromptOps
    /\ LET n == getNextApiKey
       IN  /\ currentApiKeyIndex' = n.index
           /\ lastKey' = n.key
           /\ IF Falsy(n.key)
              THEN UNCHANGED <<fileQueue, dom, promptOps>>
              ELSE LET g == GeneratePromptForImage(fileQueue, dom, isGenerating,
                                isBatchGeneratingPrompts, id, n.key)
                   IN  /\ fileQueue' = g.q
                       /\ dom' = g.d
                       /\ promptOps' =
                            IF g.called
                            THEN promptOps \cup
                                 {PromptOp(0, FreeSlot(promptOps), n.key, id, g.originalStatus)}
                            ELSE promptOps
    /\ UNCHANGED <<isGenerating, isBatchGeneratingPrompts, storedKeys, genWorkers,
                   reads, nextId, concurrency, returned>>

\* fileQueue.find(i => (i.file || ...) && !i.promptGenerationStarted), as an
\* index (0: none)
FindPromptable(q) ==
    IF \E i \in 1..Len(q) : Processable(q[i]) /\ ~q[i].promptGenerationStarted
    THEN CHOOSE i \in 1..Len(q) :
            /\ Processable(q[i]) /\ ~q[i].promptGenerationStarted
            /\ \A j \in 1..(i - 1) : ~(Processable(q[j]) /\ ~q[j].promptGenerationStarted)
    ELSE 0

\* One turn of runPromptWorker's loop, to the await inside
\* generatePromptForImage: ops holds the call the worker now awaits, or
\* nothing if the worker returned.
PromptWorkerClaim(q, d, gen, batch, run, workerId, apiKey) ==
    LET i == FindPromptable(q)
    IN  IF batch /\ i # 0
        THEN LET q1 == [q EXCEPT ![i].promptGenerationStarted = TRUE]
                 g == GeneratePromptForImage(q1, d, gen, batch, q[i].id, apiKey)
             IN  [q |-> g.q, d |-> g.d,
                  ops |-> {PromptOp(run, workerId, apiKey, q[i].id, g.originalStatus)}]
        ELSE [q |-> q, d |-> d, ops |-> {}]

ClearMarkers(q) == [i \in 1..Len(q) |-> [q[i] EXCEPT !.promptGenerationStarted = FALSE]]

\* the code of startBatchPromptGeneration after `await Promise.all(workers)`
JoinPrompts(q, d, gen) ==
    LET q1 == ClearMarkers(q)
    IN  [q |-> q1,
         d |-> SetBatchPromptUIState([d EXCEPT !.statusEl = OtherText],
                                     FALSE, q1, gen, FALSE)]

\* the captured status written back as it is
RestoredStatusStale(originalStatus) == originalStatus

\* originalStatus === 'generating-prompt' ? 'queued' : originalStatus
RestoredStatus(originalStatus) ==
    IF originalStatus = "generating-prompt" THEN "queued" ELSE originalStatus

\* the catch block writing back the captured status
FailureStatusRestored(originalStatus) == RestoredStatus(originalStatus)

\* item.status = 'error' in the catch block, whatever status was captured
FailureStatus(originalStatus) == "error"

\* generateContent settled for the call o: the rest of
\* generatePromptForImage, and of the worker's loop if a worker awaits it
PromptReturns(o, ok, text) ==
    /\ o \in promptOps
    /\ LET q1 == IF ok
                 THEN WriteItem(fileQueue, o.item,
                        [prompt |-> Trim(text),
                         status |-> RestoredStatus(o.originalStatus)])
                 ELSE WriteItem(fileQueue, o.item,
                        [status |-> FailureStatus(o.originalStatus),
                         error |-> PromptFailed])
           d1 == RenderQueue(dom, q1, isGenerating, isBatchGeneratingPrompts)
           rest == promptOps \ {o}
       IN  IF o.run = 0
           THEN /\ promptOps' = rest
                /\ fileQueue' = q1
                /\ dom' = d1
                /\ UNCHANGED isBatchGeneratingPrompts
           ELSE LET c == PromptWorkerClaim(q1, d1, isGenerating, isBatchGeneratingPrompts,
                                           o.run, o.workerId, o.apiKey)
                IN  IF c.ops # {}
                    THEN /\ promptOps' = rest \cup c.ops
                         /\ fileQueue' = c.q
                         /\ dom' = c.d
                         /\ UNCHANGED isBatchGeneratingPrompts
                    ELSE IF \E p \in rest : p.run = o.run
                    THEN /\ promptOps' = rest
                         /\ fileQueue' = q1
                         /\ dom' = d1
                         /\ UNCHANGED isBatchGeneratingPrompts
                    ELSE LET j == JoinPrompts(q1, d1, isGenerating)
                         IN  /\ promptOps' = rest
                             /\ fileQueue' = j.q
                             /\ dom' = j.d
                             /\ isBatchGeneratingPrompts' = FALSE
    /\ lastKey' = NoCall
    /\ UNCHANGED <<isGenerating, currentApiKeyIndex, storedKeys, genWorkers, reads, nextId,
                   userEvents, concurrency, returned>>

\* apiKeys.slice(0, concurrency).map(apiKey => runPromptWorker(apiKey)): each
\* worker runs to its first await before the next is started
RECURSIVE StartPromptWorkers(_, _, _, _, _, _, _)
StartPromptWorkers(q, d, gen, run, apiKeys, i, n) ==
    IF i >= n THEN [q |-> q, d |-> d, ops |-> {}]
    ELSE LET c == PromptWorkerClaim(q, d, gen, TRUE, run, i, apiKeys[i + 1])
             r == StartPromptWorkers(c.q, c.d, gen, run, apiKeys, i + 1, n)
         IN  [q |-> r.q, d |-> r.d, ops |-> c.ops \cup r.ops]

PromptRuns(ops) == { o.run : o \in ops } \ {0}

FreePromptRun(ops) ==
    CHOOSE r \in 1..MaxRuns :
        r \notin PromptRuns(ops) /\ \A s \in 1..(r - 1) : s \in PromptRuns(ops)

\* startBatchPromptGeneration, to its await of Promise.all
StartBatchPromptGeneration ==
    LET apiKeys == getApiKeys
        gen == isGenerating
    IN  IF isGenerating \/ isBatchGeneratingPrompts
           \/ Len(apiKeys) = 0 \/ ~HasProcessableItems(fileQueue)
        THEN UNCHANGED <<fileQueue, isBatchGeneratingPrompts, dom, promptOps>>
        ELSE LET run == FreePromptRun(promptOps)
                 d1 == [SetBatchPromptUIState(dom, TRUE, fileQueue, gen, TRUE)
                           EXCEPT !.statusEl = OtherText]
                 n == Min(Min(Len(apiKeys), Len(SelectSeq(fileQueue, Processable))),
                          MAX_PROMPT_WORKERS)
                 s == StartPromptWorkers(ClearMarkers(fileQueue), d1, gen, run,
                                         apiKeys, 0, n)
             IN  IF s.ops # {}
                 THEN /\ promptOps' = promptOps \cup s.ops
                      /\ fileQueue' = s.q
                      /\ dom' = s.d
                      /\ isBatchGeneratingPrompts' = TRUE
                 ELSE LET j == JoinPrompts(s.q, s.d, gen)
                      IN  /\ promptOps' = promptOps
                          /\ fileQueue' = j.q
                          /\ dom' = j.d
                          /\ isBatchGeneratingPrompts' = FALSE

\* the click listener of generateAllPromptsButton
GenerateAllPromptsButtonClick ==
    /\ UserEvent
    /\ ~dom.generateAllPromptsButtonDisabled
    /\ IF isBatchGeneratingPrompts
       THEN /\ isBatchGeneratingPrompts' = FALSE
            /\ dom' = [dom EXCEPT !.generateAllPromptsButtonDisabled = TRUE,
                                   !.statusEl = OtherText]
            /\ UNCHANGED <<fileQueue, promptOps>>
       ELSE /\ Cardinality(PromptRuns(promptOps)) < MaxRuns
            /\ StartBatchPromptGeneration
    /\ lastKey' = NoCall
    /\ UNCHANGED <<isGenerating, currentApiKeyIndex, storedKeys, genWorkers, reads, nextId,
                   concurrency, returned>>

---------------------------------------------------------------------------
(* The program *)

ItemIds == 1..(MaxItems + 1)

Next ==
    \/ HandleFilesStart
    \/ \E id \in ItemIds : AddImageToItemStart(id)
    \/ \E k \in 1..(MaxReads + 1) : ReadDone(k)
    \/ \E id \in ItemIds, text \in PromptTexts : PromptInput(id, text)
    \/ \E id \in ItemIds : RemoveQueueItem(id)
    \/ \E id \in ItemIds : RemoveImageFromItem(id)
    \/ HandleClearCompleted
    \/ \E keys \in KeyLists : SaveApiKey(keys)
    \/ GenerateButtonClick
    \/ \E w \in genWorkers, outcome \in OperationOutcomes : OperationReturns(w, outcome)
    \/ \E w \in genWorkers : DelayTick(w)
    \/ \E w \in genWorkers, ok \in BOOLEAN : FetchReturns(w, ok)
    \/ \E id \in ItemIds : GenPromptBtnClick(id)
    \/ \E o \in promptOps, ok \in BOOLEAN, text \in ResponseTexts : PromptReturns(o, ok, text)
    \/ GenerateAllPromptsButtonClick

Spec == Init /\ [][Next]_vars

---------------------------------------------------------------------------
(* The key rotator alone: a list that stays as loaded, and calls of        *)
(* getNextApiKey                                                           *)

\* every list of up to three lines over three keys, repeated keys included
RotationKeys == {"k1", "k2", "k3"}
RotationKeyLists ==
    UNION { [1..n -> RotationKeys] : n \in 0..3 }

InitRotation ==
    /\ fileQueue = <<>>
    /\ isGenerating = FALSE
    /\ isBatchGeneratingPrompts = FALSE
    /\ currentApiKeyIndex = 0
    /\ storedKeys \in RotationKeyLists
    /\ dom = [generateButtonDisabled |-> TRUE,
              generateAllPromptsButtonDisabled |-> TRUE,
              panelDisabled |-> FALSE,
              clearCompletedDisplay |-> FALSE,
              itemControlsDisabled |-> FALSE,
              genPromptBtnDisabled |-> <<>>,
              quotaErrorDisplay |-> FALSE,
              statusEl |-> OtherText]
    /\ genWorkers = {}
    /\ promptOps = {}
    /\ reads = <<>>
    /\ nextId = 0
    /\ userEvents = 0
    /\ concurrency = 0
    /\ returned = <<>>
    /\ lastKey = NoCall

\* one call of getNextApiKey; returned records the cursor it read and the
\* key it gave
CallGetNextApiKey ==
    /\ Len(returned) < MaxCalls
    /\ LET n == getNextApiKey
       IN  /\ returned' = Append(returned, [index |-> currentApiKeyIndex, key |-> n.key])
           /\ currentApiKeyIndex' = n.index
           /\ lastKey' = n.key
    /\ UNCHANGED <<fileQueue, isGenerating, isBatchGeneratingPrompts, storedKeys, dom,
                   genWorkers, promptOps, reads, nextId, userEvents, concurrency>>

NextRotation == CallGetNextApiKey

SpecRotation == InitRotation /\ [][NextRotation]_vars

---------------------------------------------------------------------------
(* startGeneration and generatePromptForImage as functions of the state    *)
(* and of their arguments: the user builds the queue and saves keys, and   *)
(* the two functions are called whatever the buttons allow,                *)
(* generatePromptForImage with any item id and any credential, the empty   *)
(* ones included                                                           *)

ApiKeyArguments == {Null, Undefined, "", "k1"}

\* one call generatePromptForImage(id, key); lastKey records the credential
CallGeneratePromptForImage(id, key) ==
    /\ UserEvent
    /\ Cardinality({o \in promptOps : o.run = 0}) < MaxPromptOps
    /\ LET g == GeneratePromptForImage(fileQueue, dom, isGenerating,
                     isBatchGeneratingPrompts, id, key)
       IN  /\ fileQueue' = g.q
           /\ dom' = g.d
           /\ promptOps' =
                IF g.called
                THEN promptOps \cup
                     {PromptOp(0, FreeSlot(promptOps), key, id, g.originalStatus)}
                ELSE promptOps
    /\ lastKey' = key
    /\ UNCHANGED <<isGenerating, isBatchGeneratingPrompts, currentApiKeyIndex, storedKeys,
                   genWorkers, reads, nextId, concurrency, returned>>

\* one call startGeneration(), as the click listener makes it: while no run
\* is on
CallStartGeneration ==
    /\ UserEvent
    /\ ~isGenerating
    /\ Cardinality(RunsOf(genWorkers)) < MaxRuns
    /\ StartGeneration
    /\ lastKey' = NoCall
    /\ UNCHANGED <<isBatchGeneratingPrompts, currentApiKeyIndex, storedKeys,
                   promptOps, reads, nextId, returned>>

NextCalls ==
    \/ HandleFilesStart
    \/ \E k \in 1..(MaxReads + 1) : ReadDone(k)
    \/ \E id \in ItemIds, text \in PromptTexts : PromptInput(id, text)
    \/ \E id \in ItemIds : RemoveImageFromItem(id)
    \/ \E keys \in KeyLists : SaveApiKey(keys)
    \/ \E id \in ItemIds, key \in ApiKeyArguments : CallGeneratePromptForImage(id, key)
    \/ \E o \in promptOps, ok \in BOOLEAN, text \in ResponseTexts : PromptReturns(o, ok, text)
    \/ CallStartGeneration
    \/ \E w \in genWorkers, outcome \in OperationOutcomes : OperationReturns(w, outcome)
    \/ \E w \in genWorkers : DelayTick(w)
    \/ \E w \in genWorkers, ok \in BOOLEAN : FetchReturns(w, ok)

SpecCalls == Init /\ [][NextCalls]_vars

---------------------------------------------------------------------------
(* The generation pool alone, with the scheduling the event loop gives.   *)
(* The user has dropped two image files and now only clicks Generate or    *)
(* Cancel; a remote call that can return does return and a timer that is   *)
(* due does fire.  The user is free to do nothing.                         *)

InitPool ==
    /\ fileQueue = <<NewItem(1), NewItem(2)>>
    /\ isGenerating = FALSE
    /\ isBatchGeneratingPrompts = FALSE
    /\ currentApiKeyIndex = 0
    /\ storedKeys \in KeyLists \ {<<>>}
    /\ dom = RenderQueue([generateButtonDisabled |-> TRUE,
                          generateAllPromptsButtonDisabled |-> TRUE,
                          panelDisabled |-> FALSE,
                          clearCompletedDisplay |-> FALSE,
                          itemControlsDisabled |-> FALSE,
                          genPromptBtnDisabled |-> <<>>,
                          quotaErrorDisplay |-> FALSE,
                          statusEl |-> OtherText],
                         <<NewItem(1), NewItem(2)>>, FALSE, FALSE)
    /\ genWorkers = {}
    /\ promptOps = {}
    /\ reads = <<>>
    /\ nextId = 2
    /\ userEvents = 2
    /\ concurrency = 0
    /\ returned = <<>>
    /\ lastKey = NoCall

NextPool ==
    \/ GenerateButtonClick
    \/ \E w \in genWorkers, outcome \in OperationOutcomes : OperationReturns(w, outcome)
    \/ \E w \in genWorkers : DelayTick(w)
    \/ \E w \in genWorkers, ok \in BOOLEAN : FetchReturns(w, ok)

PoolFairness ==
    /\ WF_vars(\E w \in genWorkers, outcome \in OperationOutcomes : OperationReturns(w, outcome))
    /\ WF_vars(\E w \in genWorkers : DelayTick(w))
    /\ WF_vars(\E w \in genWorkers, ok \in BOOLEAN : FetchReturns(w, ok))

SpecPool == InitPool /\ [][NextPool]_vars /\ PoolFairness

---------------------------------------------------------------------------
(* Cancellation with the scheduling the event loop gives.  The user has    *)
(* dropped one image file, clicks Generate or Cancel and edits the prompt; *)
(* for every worker, a remote call that can return does return and a timer *)
(* that is due does fire.                                                  *)

InitCancel ==
    /\ fileQueue = <<NewItem(1)>>
    /\ isGenerating = FALSE
    /\ isBatchGeneratingPrompts = FALSE
    /\ currentApiKeyIndex = 0
    /\ storedKeys \in KeyLists \ {<<>>}
    /\ dom = RenderQueue([generateButtonDisabled |-> TRUE,
                          generateAllPromptsButtonDisabled |-> TRUE,
                          panelDisabled |-> FALSE,
                          clearCompletedDisplay |-> FALSE,
                          itemControlsDisabled |-> FALSE,
                          genPromptBtnDisabled |-> <<>>,
                          quotaErrorDisplay |-> FALSE,
                          statusEl |-> OtherText],
                         <<NewItem(1)>>, FALSE, FALSE)
    /\ genWorkers = {}
    /\ promptOps = {}
    /\ reads = <<>>
    /\ nextId = 1
    /\ userEvents = 1
    /\ concurrency = 0
    /\ returned = <<>>
    /\ lastKey = NoCall

NextCancel ==
    \/ GenerateButtonClick
    \/ \E id \in ItemIds, text \in PromptTexts : PromptInput(id, text)
    \/ \E w \in genWorkers, outcome \in OperationOutcomes : OperationReturns(w, outcome)
    \/ \E w \in genWorkers : DelayTick(w)
    \/ \E w \in genWorkers, ok \in BOOLEAN : FetchReturns(w, ok)

\* what worker workerId of run `run` awaits arrives
WorkerProgress(run, workerId) ==
    \E w \in genWorkers :
        /\ w.run = run /\ w.workerId = workerId
        /\ \/ \E outcome \in OperationOutcomes : OperationReturns(w, outcome)
           \/ DelayTick(w)
           \/ \E ok \in BOOLEAN : FetchReturns(w, ok)

WorkerFairness ==
    \A run \in 1..MaxRuns, workerId \in 0..(MAX_VIDEO_WORKERS - 1) :
        WF_vars(WorkerProgress(run, workerId))

SpecCancel == InitCancel /\ [][NextCancel]_vars /\ WorkerFairness

---------------------------------------------------------------------------
(* Claims *)

StatusOf(q, id) == ItemOf(q, id).status

ProcessingCount(q) == Cardinality({ i \in 1..Len(q) : q[i].status = "processing" })

\* the prompt workers alive: each awaits one generatePromptForImage call
PromptWorkers == { o \in promptOps : o.run > 0 }

GenWorkerIds(ws) == { <<w.run, w.workerId>> : w \in ws }

\* C1: no item is held by two generation workers at the same time.
C1_ExclusiveClaim ==
    \A w1, w2 \in genWorkers : w1 # w2 => w1.item # w2.item

\* C2: the generation workers alive, and the items in status processing,
\* never number more than min(a, b, 5) of the latest startGeneration.
C2_ConcurrencyBound ==
    /\ Cardinality(genWorkers) <= concurrency
    /\ ProcessingCount(fileQueue) <= concurrency

\* C3: while a cancelled run has not joined (flag cleared, workers alive), no
\* item changes status to complete and no result artifact is stored.
C3_NoLateCompletion ==
    [][(~isGenerating /\ genWorkers # {}) =>
        \A id \in Ids(fileQueue) \cap Ids(fileQueue') :
            /\ StatusOf(fileQueue', id) = "complete" => StatusOf(fileQueue, id) = "complete"
            /\ ItemOf(fileQueue', id).videoBlob => ItemOf(fileQueue, id).videoBlob]_vars

\* C4: the step in which the last worker of a cancelled run returns (the
\* join) leaves no item in status processing.
C4_RequeueOnCancel ==
    [][(genWorkers # {} /\ genWorkers' = {} /\ ~isGenerating) =>
        ProcessingCount(fileQueue') = 0]_vars

\* C5: no generation worker is alive while a prompt worker is alive.
C5_PoolsExclusive ==
    ~(genWorkers # {} /\ PromptWorkers # {})

\* C6: every item with neither image nor non-blank prompt has status skipped.
C6_SkippedInvariant ==
    \A i \in 1..Len(fileQueue) :
        ~Processable(fileQueue[i]) => fileQueue[i].status = "skipped"

\* C7: a worker of either pool that takes an item takes one that has an
\* image or a non-blank prompt at that moment.
C7_ClaimsOnlyEligible ==
    [][/\ \A w \in genWorkers' \ genWorkers :
            w.pc = "submit" =>
                /\ w.item \in Ids(fileQueue')
                /\ Processable(ItemOf(fileQueue', w.item))
       /\ \A o \in PromptWorkers' \ PromptWorkers :
            /\ o.item \in Ids(fileQueue')
            /\ Processable(ItemOf(fileQueue', o.item))]_vars

\* C8: with the list fixed, the i-th call of getNextApiKey reads cursor
\* (i - 1) mod k and returns the key at it, so each position of the list is
\* returned floor(N/k) or ceil(N/k) times in N calls; with the empty list
\* every call returns null and leaves the cursor as it was.
C8_RoundRobin ==
    LET k == Len(storedKeys)
        N == Len(returned)
        Times(j) == Cardinality({ i \in 1..N : returned[i].index = j })
    IN  IF k = 0
        THEN /\ \A i \in 1..N : returned[i].key = Null
             /\ currentApiKeyIndex = 0
        ELSE /\ \A i \in 1..N :
                    /\ returned[i].index = (i - 1) % k
                    /\ returned[i].key = storedKeys[((i - 1) % k) + 1]
             /\ \A j \in 0..(k - 1) : Times(j) \in { N \div k, (N + k - 1) \div k }
             /\ currentApiKeyIndex = N % k

\* C8 witness: a list of three keys has been cycled through more than twice.
C8_Witness ==
    /\ Len(storedKeys) = 3
    /\ Len(returned) = 7
    /\ returned[7].key = storedKeys[1]

\* C9: whenever getNextApiKey is called with a non-empty list, the key it
\* returns is a member of the list.
C9_CursorValid ==
    (lastKey # NoCall /\ Len(storedKeys) > 0) => lastKey \in Range(storedKeys)

C11_ErrorIsolation ==
    \A id \in ItemIds :
        (/\ isGenerating /\ genWorkers # {}
         /\ id \in Ids(fileQueue) /\ StatusOf(fileQueue, id) = "queued"
         /\ \E i \in 1..Len(fileQueue) :
               fileQueue[i].id # id /\ fileQueue[i].error # NoError)
        ~> (\/ ~isGenerating
            \/ id \notin Ids(fileQueue)
            \/ StatusOf(fileQueue, id) # "queued")

\* C12: an item has a stored result artifact if and only if its status is
\* complete.
C12_ArtifactIffComplete ==
    \A i \in 1..Len(fileQueue) :
        fileQueue[i].videoBlob <=> fileQueue[i].status = "complete"

\* C13: an item carries an error message only when its status is error.
C13_ErrorOnlyWhenError ==
    \A i \in 1..Len(fileQueue) :
        fileQueue[i].error # NoError => fileQueue[i].status = "error"

\* the prompt call o is answered with text, and the worker that awaited it
\* does not take the same item again in the same step
PromptSucceeds(o, text) ==
    /\ PromptReturns(o, TRUE, text)
    /\ o.item \in Ids(fileQueue')
    /\ \A p \in promptOps' :
          ~(p.run = o.run /\ p.workerId = o.workerId /\ p.item = o.item)

\* C14: a generatePromptForImage call that succeeds leaves its item with the
\* status it had when the call started (queued if that was
\* generating-prompt) and with the trimmed response as prompt; and an item is
\* in generating-prompt only while a prompt call on it is in flight.
C14_PromptRestoration ==
    [][/\ \A o \in promptOps, text \in ResponseTexts :
            PromptSucceeds(o, text) =>
                /\ StatusOf(fileQueue', o.item) =
                     (IF o.originalStatus = "generating-prompt"
                      THEN "queued" ELSE o.originalStatus)
                /\ ItemOf(fileQueue', o.item).prompt = Trim(text)
                /\ Trim(text) = <<>> \/ Trim(text) = <<"b">>
       /\ \A i \in 1..Len(fileQueue') :
            fileQueue'[i].status = "generating-prompt" =>
                \E o \in promptOps' : o.item = fileQueue'[i].id]_vars

\* C14 witness: a call started on an item already in generating-prompt is in
\* flight, and the call that was started first has succeeded: the item is
\* queued again and holds the trimmed response.
C14_Witness ==
    \E o \in promptOps :
        /\ o.originalStatus = "generating-prompt"
        /\ o.item \in Ids(fileQueue)
        /\ ItemOf(fileQueue, o.item).prompt = <<"b">>
        /\ StatusOf(fileQueue, o.item) = "queued"

C17_PromptClaimOnce ==
    /\ \A o1, o2 \in PromptWorkers : o1 # o2 => o1.item # o2.item
    /\ \A o \in PromptWorkers :
            o.item \in Ids(fileQueue) => ItemOf(fileQueue, o.item).promptGenerationStarted
    /\ PromptWorkers = {} =>
            \A i \in 1..Len(fileQueue) : ~fileQueue[i].promptGenerationStarted

\* a click on Generate that enters startGeneration
StartGenerationCalled == GenerateButtonClick /\ ~isGenerating

\* C16: startGeneration called with no stored credential, or with no item
\* that has an image or a non-blank prompt, starts no worker, leaves
\* isGenerating false and leaves every item as it was.
C16_FailFastAtStart ==
    [][(CallStartGeneration
        /\ (Len(storedKeys) = 0 \/ ~HasProcessableItems(fileQueue))) =>
            /\ genWorkers' = genWorkers
            /\ ~isGenerating'
            /\ fileQueue' = fileQueue]_vars

\* C16 witness: startGeneration has returned on the empty credential list
\* (its message is shown) with a completed item in the queue, which still
\* has its status and its artifact.
C16_Witness ==
    /\ storedKeys = <<>>
    /\ dom.quotaErrorDisplay
    /\ ~isGenerating
    /\ genWorkers = {}
    /\ \E i \in 1..Len(fileQueue) :
            fileQueue[i].status = "complete" /\ fileQueue[i].videoBlob

\* the generateVideo call of worker w throws the error with message msg
GenerateVideoThrows(w, msg) ==
    \/ msg \in SubmitErrors /\ OperationReturns(w, "throws")
    \/ msg = NoVideosError /\ OperationReturns(w, "no videos")
    \/ msg = FetchError /\ FetchReturns(w, FALSE)

\* C18: when generateVideo throws with the flag set, the item gets status
\* error (the worker may take it again in the same step) and the message,
\* and the notice is visible afterwards exactly if it was visible before or
\* the message contains one of the four signals, case ignored: of the
\* messages thrown, "PERMISSION_DENIED" does, "No videos were generated."
\* and "Failed to fetch video: " do not.
C18_CredentialNotice ==
    [][\A w \in genWorkers, msg \in SubmitErrors \cup {NoVideosError, FetchError} :
        (isGenerating /\ userEvents' = userEvents /\ GenerateVideoThrows(w, msg)) =>
            /\ w.item \in Ids(fileQueue) =>
                /\ ItemOf(fileQueue', w.item).error = msg
                /\ \/ StatusOf(fileQueue', w.item) = "error"
                   \/ /\ StatusOf(fileQueue', w.item) = "processing"
                      /\ \E v \in genWorkers' :
                            v.item = w.item /\ v.pc = "submit"
                            /\ v.run = w.run /\ v.workerId = w.workerId
            /\ dom'.quotaErrorDisplay =
                 (dom.quotaErrorDisplay \/ msg = PermissionDenied)]_vars

\* C18 witness: one item has failed with a permission message, the other
\* with "No videos were generated.", and the notice is visible.
C18_Witness ==
    /\ isGenerating
    /\ dom.quotaErrorDisplay
    /\ \E i, j \in 1..Len(fileQueue) :
        /\ fileQueue[i].error = PermissionDenied
        /\ fileQueue[j].error = NoVideosError

\* a click on Generate with which startGeneration passes its two checks
RunStarts ==
    StartGenerationCalled /\ Len(storedKeys) # 0 /\ HasProcessableItems(fileQueue)

\* the workers of an uncancelled run have all returned with no item in error
RunEndsWithoutError ==
    /\ isGenerating
    /\ genWorkers # {} /\ genWorkers' = {}
    /\ \A i \in 1..Len(fileQueue') : fileQueue'[i].status # "error"

\* C19 (as claimed): the notice that an item's credential error made visible
\* is hidden only by the end of a run in which nothing failed; starting a
\* run does not hide it.
C19_NoticeUntilSuccess ==
    [][(/\ dom.quotaErrorDisplay
        /\ \E i \in 1..Len(fileQueue) : fileQueue[i].error = PermissionDenied
        /\ ~dom'.quotaErrorDisplay) => RunEndsWithoutError]_vars

\* C19 (amended): the notice, once visible, is hidden by startGeneration
\* when it has passed its two checks, before any worker runs, and by nothing
\* else: not by a cancel, not by the end of a run, with or without errors.
C19_NoticeUntilRunStart ==
    [][/\ (dom.quotaErrorDisplay /\ ~dom'.quotaErrorDisplay) => RunStarts
       /\ RunStarts => ~dom'.quotaErrorDisplay]_vars

\* C19 witness: an item failed with a permission message, the run was
\* cancelled and has joined (the item is queued again), and the notice is
\* still visible.
C19_Witness ==
    /\ dom.quotaErrorDisplay
    /\ ~isGenerating
    /\ genWorkers = {}
    /\ \E i \in 1..Len(fileQueue) :
        fileQueue[i].status = "queued" /\ fileQueue[i].error = PermissionDenied

\* worker w is interrupted: its poll delay rejects, or its remote call fails
Interrupted(w) ==
    \/ DelayTick(w)
    \/ OperationReturns(w, "pending")
    \/ \E msg \in SubmitErrors \cup {NoVideosError, FetchError} : GenerateVideoThrows(w, msg)

\* C20: a worker that is interrupted while the flag is cleared returns
\* without setting its item to error and without storing a message on it.
C20_CancelIsNoError ==
    [][\A w \in genWorkers :
        (~isGenerating /\ userEvents' = userEvents /\ Interrupted(w)) =>
            /\ \A v \in genWorkers' : ~(v.run = w.run /\ v.workerId = w.workerId)
            /\ w.item \in Ids(fileQueue) =>
                /\ ItemOf(fileQueue', w.item).error = ItemOf(fileQueue, w.item).error
                /\ StatusOf(fileQueue', w.item) = "error" =>
                       StatusOf(fileQueue, w.item) = "error"]_vars

\* C20 witness: of the two workers of a cancelled run one has returned and
\* left its item in processing with no message, the other is still in its
\* poll delay.
C20_Witness ==
    /\ ~isGenerating
    /\ concurrency = 2
    /\ Cardinality(genWorkers) = 1
    /\ \E w \in genWorkers : w.pc = "delay"
    /\ Len(fileQueue) = 2
    /\ \A i \in 1..2 : fileQueue[i].status = "processing" /\ fileQueue[i].error = NoError

\* C21: while the flag of a pool stays cleared, no item moves from queued or
\* error to processing (generation pool) and no item gets the
\* promptGenerationStarted marker (prompt pool); the workers that are still
\* out neither grow in number nor change the item they hold.
C21_CancelHaltsClaiming ==
    [][/\ (~isGenerating /\ ~isGenerating') =>
            /\ \A v \in genWorkers' : \E w \in genWorkers :
                  w.run = v.run /\ w.workerId = v.workerId /\ w.item = v.item
            /\ \A id \in Ids(fileQueue) \cap Ids(fileQueue') :
                  ~(/\ StatusOf(fileQueue, id) \in {"queued", "error"}
                    /\ StatusOf(fileQueue', id) = "processing")
       /\ (~isBatchGeneratingPrompts /\ ~isBatchGeneratingPrompts') =>
            /\ PromptWorkers' \subseteq PromptWorkers
            /\ \A id \in Ids(fileQueue) \cap Ids(fileQueue') :
                  ItemOf(fileQueue', id).promptGenerationStarted =>
                      ItemOf(fileQueue, id).promptGenerationStarted]_vars

\* the ids of the eligible items of q, in queue order
EligibleIds(q) ==
    LET e == SelectSeq(q, Processable) IN [i \in 1..Len(e) |-> e[i].id]

\* the least of three numbers
MinOfThree(a, b, c) == CHOOSE n \in {a, b, c} : n <= a /\ n <= b /\ n <= c

\* worker w finishes the item it holds: generateVideo resolves with the
\* video, or throws while the flag is set
WorkerFinishesItem(w) ==
    \/ FetchReturns(w, TRUE)
    \/ /\ isGenerating
       /\ \E msg \in SubmitErrors \cup {NoVideosError, FetchError} : GenerateVideoThrows(w, msg)

RunJoins == RunsOf(genWorkers) \ RunsOf(genWorkers') # {}

\* C23: the final text is written only when the workers of a run have all
\* returned; it is "Generation cancelled." exactly if the flag is cleared
\* then; otherwise, if some eligible item carries the message of a failed
\* generation attempt, each such item is in status error and the text is
\* "complete with N error(s)", N >= 1 the number of items in status error,
\* and if none does the text is "complete" and no item is in status error.
C23_FinalOutcome ==
    [][/\ (/\ dom'.statusEl # dom.statusEl
           /\ dom'.statusEl # OtherText) => RunJoins
       /\ RunJoins =>
            LET failed == { i \in 1..Len(fileQueue') :
                              /\ Processable(fileQueue'[i])
                              /\ fileQueue'[i].error \in ErrorMessages }
                n == Cardinality({ i \in 1..Len(fileQueue') :
                                     fileQueue'[i].status = "error" })
            IN  IF ~isGenerating
                THEN dom'.statusEl = GenerationCancelledText
                ELSE IF failed # {}
                THEN /\ \A i \in failed : fileQueue'[i].status = "error"
                     /\ n >= 1
                     /\ dom'.statusEl = CompleteWithErrorsText(n)
                ELSE /\ n = 0
                     /\ dom'.statusEl = CompleteText]_vars

\* the remote call of the prompt operation o fails
PromptFails(o) == \E text \in ResponseTexts : PromptReturns(o, FALSE, text)

\* C24: when the remote call of a prompt operation fails, its item (if still
\* in the queue) has status error and the message "Prompt generation
\* failed.", whatever status the operation captured, and the prompt it had
\* before the step; the one other outcome of the step is that the worker
\* that awaited the call takes the same item again, on status error.
C24_PromptFailure ==
    [][\A o \in promptOps :
        (PromptFails(o) /\ o.item \in Ids(fileQueue)) =>
            /\ ItemOf(fileQueue', o.item).error = PromptFailed
            /\ ItemOf(fileQueue', o.item).prompt = ItemOf(fileQueue, o.item).prompt
            /\ \/ StatusOf(fileQueue', o.item) = "error"
               \/ /\ StatusOf(fileQueue', o.item) = "generating-prompt"
                  /\ \E p \in promptOps' :
                        /\ p.run = o.run /\ p.workerId = o.workerId /\ p.run > 0
                        /\ p.item = o.item /\ p.originalStatus = "error"]_vars

\* C24 witness: an item whose prompt operation failed is in status error
\* with the fixed message and still has the prompt the user typed; no call
\* is in flight.
C24_Witness ==
    /\ promptOps = {}
    /\ \E i \in 1..Len(fileQueue) :
        /\ fileQueue[i].status = "error"
        /\ fileQueue[i].error = PromptFailed
        /\ fileQueue[i].prompt = <<"a">>

\* C25: once the flag is cleared with workers out, all of them eventually
\* return and startGeneration finishes: no worker is left and isGenerating
\* is false.
C25_CancelResponse ==
    (~isGenerating /\ genWorkers # {}) ~> (genWorkers = {} /\ ~isGenerating)

\* item k of q is the first in queue order with status queued or error
IsFirstClaimable(q, k) ==
    /\ k \in 1..Len(q)
    /\ q[k].status \in {"queued", "error"}
    /\ \A j \in 1..(k - 1) : q[j].status \notin {"queued", "error"}

\* C26: when a worker has finished its item with the flag set (the item is
\* complete, or error after a failure), it takes the first item in queue
\* order whose status is then queued or error, the item it just marked
\* error included, and that item is processing after the step; if there is
\* none the worker returns.  At a run start worker i takes the first
\* eligible item that the workers before it left.
C26_ClaimOrder ==
    [][/\ \A w \in genWorkers :
            (/\ isGenerating
             /\ userEvents' = userEvents
             /\ WorkerFinishesItem(w)) =>
                LET q1 == IF FetchReturns(w, TRUE)
                          THEN WriteItem(fileQueue, w.item, [status |-> "complete"])
                          ELSE WriteItem(fileQueue, w.item, [status |-> "error"])
                IN  IF \E k \in 1..Len(q1) : IsFirstClaimable(q1, k)
                    THEN \E k \in 1..Len(q1) :
                            /\ IsFirstClaimable(q1, k)
                            /\ fileQueue'[k].status = "processing"
                            /\ \E v \in genWorkers' :
                                  /\ v.run = w.run /\ v.workerId = w.workerId
                                  /\ v.item = q1[k].id /\ v.pc = "submit"
                    ELSE \A v \in genWorkers' :
                            ~(v.run = w.run /\ v.workerId = w.workerId)
       /\ RunStarts =>
            \A v \in genWorkers' \ genWorkers :
                \E k \in 1..Len(fileQueue) :
                    /\ fileQueue[k].id = v.item
                    /\ Processable(fileQueue[k])
                    /\ fileQueue'[k].status = "processing"
                    /\ \A j \in 1..(k - 1) :
                          Processable(fileQueue[j]) =>
                              \E u \in genWorkers' \ genWorkers :
                                  u.item = fileQueue[j].id /\ u.workerId < v.workerId]_vars

\* C26 witness: with one worker and two items, the worker has failed on the
\* first item and has taken it again, ahead of the second, which is queued.
C26_Witness ==
    /\ isGenerating
    /\ Len(fileQueue) = 2
    /\ fileQueue[1].status = "processing"
    /\ fileQueue[1].error \in ErrorMessages
    /\ fileQueue[2].status = "queued"
    /\ genWorkers = {[run |-> 1, workerId |-> 0, apiKey |-> "k1",
                      item |-> fileQueue[1].id, pc |-> "submit"]}

\* C27: if from some time on no operation is reported as still pending, so
\* that every generation attempt ends with the video or with a failure,
\* then a run that is on eventually ends: the flag, which only a cancel or
\* the code after Promise.all resets, is false again.
C27_RunTerminates ==
    (<>[](\A w \in genWorkers : w.pc # "delay")) => (isGenerating ~> ~isGenerating)

\* C28: startGeneration is entered only when no worker of an earlier run is
\* still out, so the workers out at any time belong to one run.
C28_SingleActiveRun ==
    [][/\ StartGenerationCalled => genWorkers = {}
       /\ Cardinality(RunsOf(genWorkers')) <= 1]_vars

\* C29: when a prompt operation finishes on an item whose status is no
\* longer generating-prompt (it was changed while the call was in flight)
\* and on which no other prompt call is in flight, the item keeps that
\* status, unless the worker that awaited the call takes the item again in
\* the same step.
C29_NoLostUpdate ==
    [][\A o \in promptOps :
        (/\ \E ok \in BOOLEAN, text \in ResponseTexts : PromptReturns(o, ok, text)
         /\ o.item \in Ids(fileQueue)
         /\ StatusOf(fileQueue, o.item) # "generating-prompt"
         /\ \A p \in promptOps : p.item = o.item => p = o
         /\ \A p \in promptOps' : p.item # o.item) =>
            StatusOf(fileQueue', o.item) = StatusOf(fileQueue, o.item)]_vars

\* C30: in the step in which startGeneration passes its two checks no item
\* is added or removed, no item keeps an artifact, every item with neither
\* image nor non-blank prompt is skipped, and every eligible item has no
\* error and is queued, or processing in the hands of a worker started in
\* that step, whatever its status was.
C30_RunStartResets ==
    [][RunStarts =>
        /\ Len(fileQueue') = Len(fileQueue)
        /\ \A i \in 1..Len(fileQueue) :
            /\ fileQueue'[i].id = fileQueue[i].id
            /\ ~fileQueue'[i].videoBlob
            /\ IF Processable(fileQueue[i])
               THEN /\ fileQueue'[i].error = NoError
                    /\ \/ fileQueue'[i].status = "queued"
                       \/ /\ fileQueue'[i].status = "processing"
                          /\ \E v \in genWorkers' \ genWorkers :
                                v.item = fileQueue[i].id
               ELSE fileQueue'[i].status = "skipped"]_vars

\* C30 witness: an item that was complete when its prompt button was
\* clicked (the call is still in flight) has since lost its artifact and is
\* processing in a run that is on: a run start has taken it from
\* generating-prompt to queued and a worker generates it again.
C30_Witness ==
    /\ isGenerating
    /\ \E o \in promptOps, w \in genWorkers :
        /\ o.originalStatus = "complete"
        /\ w.item = o.item
        /\ o.item \in Ids(fileQueue)
        /\ StatusOf(fileQueue, o.item) = "processing"
        /\ ~ItemOf(fileQueue, o.item).videoBlob
        /\ ItemOf(fileQueue, o.item).error = NoError

====
